---- MODULE Spec2Model ----
(***************************************************************************)
(* Model of process_geotagged_photos.py: import_geotagged_photos_to_points *)
(* reads the photos of a folder, groups the accepted records by the value  *)
(* of the folder key and creates or updates one point store per group.     *)
(*                                                                         *)
(* A store is what gpd.read_file / to_file exchange with the program: a    *)
(* list of column names and a list of rows (a row maps every column to a   *)
(* value, Missing standing for None / NaN).  Stores are keyed by the exact *)
(* group value (a case-sensitive file system), and the two globs of lines  *)
(* 71-72 list every file once.  os.makedirs is not modelled: a directory   *)
(* is no store.                                                            *)
(*                                                                         *)
(* Of the columns a record copies straight from EXIF (latitude, longitude, *)
(* altitude, create_date, orientation, geometry) the model keeps latitude: *)
(* the others are built, reindexed, overwritten and pruned with it.        *)
(*                                                                         *)
(* A run is the actions from pc = "idle" to "returned" or "raised": the    *)
(* parse loop and grouping in one step, then one step per group, because   *)
(* a raise in one group leaves the stores written before it on disk.       *)
(***************************************************************************)
EXTENDS Integers, Sequences, FiniteSets, TLC

VARIABLES
    stores,               \* group value -> store on disk
    jpg_files,            \* the folder's photos, in glob order
    folder_valid_values,  \* the allow-list, or NoList
    pc,                   \* "idle", "grouped", "returned", "raised"
    pending,              \* groups of grouped_records still to be processed
    error,                \* which raise ended the run: "none", "allow", "schema"
    pre,                  \* the stores when the current run started
    prev,                 \* how the previous run ended and the stores it left
    runs,                 \* runs finished so far
    written               \* the groups whose store the current run has written

vars == <<stores, jpg_files, folder_valid_values, pc, pending, error, pre, prev, runs, written>>

\* ---------------------------------------------------------------- bounds
MaxRuns == 2      \* consecutive runs over the same folder
MaxRows == 2      \* rows of a store found on disk before the first run

\* ------------------------------------------------------------- constants
Missing == "<NA>"
NoList == [given |-> FALSE, values |-> {}]     \* folder_valid_values=None
ValidValues(values) == [given |-> TRUE, values |-> values]

folder_key_word == "F"

Files == {"p1.jpg", "p2.jpg"}
RowNames == Files \cup {"old.jpg"}
GroupValues == {"x", "y"}

Range(s) == {s[i] : i \in 1..Len(s)}

\* str.lower over the names that occur
Lower(s) ==
    CASE s = "F" -> "f"
      [] s = "A" -> "a"
      [] s = "B" -> "b"
      [] OTHER -> s

final_key == Lower(folder_key_word)

\* EXIF gps_latitude of a file, already in decimal degrees
LatitudeOf(name) ==
    CASE name = "p1.jpg" -> "10.5"
      [] name = "p2.jpg" -> "20.5"
      [] OTHER -> "0.0"

\* description.split(';'), each segment stripped and split on its first '-'
Split(description) ==
    CASE description = "f-x" -> << <<"f", "x">> >>
      [] description = "F-x;A-1" -> << <<"F", "x">>, <<"A", "1">> >>
      [] description = "f-x;A-1;a-2" -> << <<"f", "x">>, <<"A", "1">>, <<"a", "2">> >>
      [] description = "f-x;B-1" -> << <<"f", "x">>, <<"B", "1">> >>
      [] description = "junk;f-y" -> << <<"junk">>, <<"f", "y">> >>
      [] description = "f-x;filename-p1.jpg" -> << <<"f", "x">>, <<"filename", "p1.jpg">> >>
      [] OTHER -> << >>

Descriptions ==
    {"f-x", "F-x;A-1", "f-x;A-1;a-2", "f-x;B-1", "junk;f-y", "f-x;filename-p1.jpg"}

\* ------------------------------------------------------------ dictionaries
\* A dict is the sequence of its <<key, value>> items in insertion order.
DictKeys(d) == {d[i][1] : i \in 1..Len(d)}

DictGet(d, k) == LET i == CHOOSE j \in 1..Len(d) : d[j][1] = k IN d[i][2]

DictSet(d, k, v) ==
    IF k \in DictKeys(d)
    THEN [i \in 1..Len(d) |-> IF d[i][1] = k THEN <<k, v>> ELSE d[i]]
    ELSE Append(d, <<k, v>>)

RECURSIVE ParsePairs(_, _, _)
ParsePairs(pairs, i, meta_dict) ==
    IF i > Len(pairs) THEN meta_dict
    ELSE LET kv == pairs[i] IN
         IF Len(kv) = 2
         THEN ParsePairs(pairs, i + 1, DictSet(meta_dict, kv[1], kv[2]))
         ELSE ParsePairs(pairs, i + 1, meta_dict)

parse_image_description(description) ==
    IF description = Missing THEN << >>
    ELSE ParsePairs(Split(description), 1, << >>)

RECURSIVE LowerKeysFrom(_, _, _)
LowerKeysFrom(d, i, acc) ==
    IF i > Len(d) THEN acc
    ELSE LowerKeysFrom(d, i + 1, DictSet(acc, Lower(d[i][1]), d[i][2]))

\* {k.lower(): v for k, v in parsed.items()}
LowerKeys(d) == LowerKeysFrom(d, 1, << >>)

\* ---------------------------------------------------------------- photos
Photo(name, has_gps, description) ==
    [name |-> name, has_gps |-> has_gps, image_description |-> description]

PhotoContents ==
    {<<FALSE, Missing>>, <<TRUE, Missing>>} \cup {<<TRUE, d>> : d \in Descriptions}

PhotosOf(name) == {Photo(name, c[1], c[2]) : c \in PhotoContents}

\* the folders glob can return: every ordering of every subset of Files
Folders ==
    {s \in UNION {[1..n -> UNION {PhotosOf(f) : f \in Files}] : n \in 0..Cardinality(Files)} :
        \A i, j \in 1..Len(s) : i # j => s[i].name # s[j].name}

\* the keys kept as the description spells them
desc_dict_as_written(photo) == parse_image_description(photo.image_description)

\* line 95: the parsed description with its keys in lower case
desc_dict_of(photo) == LowerKeys(parse_image_description(photo.image_description))

HasKey(photo) == photo.has_gps /\ final_key \in DictKeys(desc_dict_of(photo))

GroupValueOf(photo) == DictGet(desc_dict_of(photo), final_key)

\* the variant of the program without the allow-list check
AllowedUnchecked(valid_values, group_value) == TRUE

\* line 109, negated: no list given, or the value is in the list
Allowed(valid_values, group_value) ==
    ~valid_values.given \/ group_value \in valid_values.values

Record(photo) ==
    [filename |-> photo.name,
     latitude |-> LatitudeOf(photo.name),
     image_description |-> photo.image_description,
     group |-> GroupValueOf(photo),
     parsed_dict |-> desc_dict_of(photo)]

\* the loop over jpg_files: the records built, or the raise of the allow-list check
RECURSIVE ParsePhotos(_, _, _, _)
ParsePhotos(files, valid_values, i, all_records) ==
    IF i > Len(files) THEN [raised |-> FALSE, all_records |-> all_records]
    ELSE LET photo == files[i] IN
         IF ~HasKey(photo)
         THEN ParsePhotos(files, valid_values, i + 1, all_records)
         ELSE IF ~Allowed(valid_values, GroupValueOf(photo))
              THEN [raised |-> TRUE, all_records |-> all_records]
              ELSE ParsePhotos(files, valid_values, i + 1, Append(all_records, Record(photo)))

\* grouped_records: a dict of group value -> records, in order of first occurrence
RECURSIVE GroupRecords(_, _, _)
GroupRecords(all_records, i, grouped) ==
    IF i > Len(all_records) THEN grouped
    ELSE LET record == all_records[i]
             g == record.group
             old == IF g \in DictKeys(grouped) THEN DictGet(grouped, g) ELSE << >>
         IN GroupRecords(all_records, i + 1, DictSet(grouped, g, Append(old, record)))

\* grouped_records seeded with an empty list for every known group value
grouped_records_seeded(all_records) ==
    GroupRecords(all_records, 1, << <<"x", << >> >>, <<"y", << >> >> >>)

\* lines 138-140: grouped_records = defaultdict(list), filled from all_records
grouped_records(all_records) == GroupRecords(all_records, 1, << >>)

\* ---------------------------------------------------------------- frames
\* A (Geo)DataFrame: its column labels and its rows, each row a function
\* from the column labels to cell values.  The 'parsed_dict' cells of new_gdf
\* are read from the records themselves (row i is built from records[i]).
Frame(columns, rows) == [kind |-> "frame", columns |-> columns, rows |-> rows]

None == [kind |-> "none"]
Absent == [kind |-> "absent"]
Unreadable == [kind |-> "unreadable"]

IsFrame(gdf) == gdf.kind = "frame"

\* existing_gdf is not None and not existing_gdf.empty
HasData(gdf) == IsFrame(gdf) /\ Len(gdf.rows) > 0

\* the order list(set(...)) or a loop over a set may give: only the relative
\* place of labels that fold to the same name is read back (existing_lower_map),
\* so the other labels keep one fixed order
ColumnOrder(variant_last) ==
    IF variant_last
    THEN <<"filename", "latitude", "image_description", "f", "F", "A", "a", "B", "b">>
    ELSE <<"filename", "latitude", "image_description", "F", "f", "A", "a", "B", "b">>

Arrange(labels, variant_last) ==
    SelectSeq(ColumnOrder(variant_last), LAMBDA c : c \in labels)

\* gdf[target] = gdf[target].fillna(gdf[source])
FillNa(gdf, target, source) ==
    Frame(gdf.columns,
          [i \in 1..Len(gdf.rows) |->
              [gdf.rows[i] EXCEPT ![target] =
                  IF @ = Missing THEN gdf.rows[i][source] ELSE @]])

\* gdf.drop(columns=[col], inplace=True)
DropColumn(gdf, col) ==
    LET columns == SelectSeq(gdf.columns, LAMBDA c : c # col)
    IN Frame(columns,
             [i \in 1..Len(gdf.rows) |-> [c \in Range(columns) |-> gdf.rows[i][c]]])

\* gdf.rename(columns={col: to for col in renamed}, inplace=True)
Rename(gdf, renamed, to) ==
    LET columns == [j \in 1..Len(gdf.columns) |->
                       IF gdf.columns[j] \in renamed THEN to ELSE gdf.columns[j]]
        origin(c) == CHOOSE o \in Range(gdf.columns) :
                        IF o \in renamed THEN c = to ELSE c = o
    IN Frame(columns,
             [i \in 1..Len(gdf.rows) |-> [c \in Range(columns) |-> gdf.rows[i][origin(c)]]])

\* gdf.reindex(columns=all_cols)
Reindex(gdf, all_cols) ==
    Frame(all_cols,
          [i \in 1..Len(gdf.rows) |->
              [c \in Range(all_cols) |->
                  IF c \in Range(gdf.columns) THEN gdf.rows[i][c] ELSE Missing]])

\* gdf[col] = None for a label the frame lacks
AddColumn(gdf, col) ==
    IF col \in Range(gdf.columns) THEN gdf
    ELSE Reindex(gdf, Append(gdf.columns, col))

\* gdf.loc[i, col] = v, which adds the column when the frame lacks it
SetCell(gdf, i, col, v) ==
    LET wide == AddColumn(gdf, col)
    IN Frame(wide.columns, [wide.rows EXCEPT ![i] = [@ EXCEPT ![col] = v]])

\* gpd.read_file behind os.path.exists and the try/except
ReadFile(store) ==
    IF store.kind = "frame"
    THEN [existing_gdf |-> Frame(store.columns, store.rows), existing_columns |-> store.columns]
    ELSE [existing_gdf |-> None, existing_columns |-> << >>]

\* the loop over existing_columns that unifies the variants of final_key
RECURSIVE UnifyLoop(_, _, _, _)
UnifyLoop(existing_columns, j, existing_gdf, renamed_cols) ==
    IF j > Len(existing_columns)
    THEN [existing_gdf |-> existing_gdf, renamed_cols |-> renamed_cols]
    ELSE LET col == existing_columns[j] IN
         IF Lower(col) = final_key /\ col # final_key
         THEN IF final_key \in Range(existing_columns)
              THEN UnifyLoop(existing_columns, j + 1,
                             DropColumn(FillNa(existing_gdf, final_key, col), col),
                             renamed_cols)
              ELSE UnifyLoop(existing_columns, j + 1, existing_gdf, renamed_cols \cup {col})
         ELSE UnifyLoop(existing_columns, j + 1, existing_gdf, renamed_cols)

\* existing_gdf and existing_columns once the variants are unified: the list
\* existing_columns is refreshed only when a column was renamed
Unify(read) ==
    LET looped == UnifyLoop(read.existing_columns, 1, read.existing_gdf, {})
    IN IF looped.renamed_cols # {}
       THEN LET gdf == Rename(looped.existing_gdf, looped.renamed_cols, final_key)
            IN [existing_gdf |-> gdf, existing_columns |-> gdf.columns]
       ELSE [existing_gdf |-> looped.existing_gdf, existing_columns |-> read.existing_columns]

Exempt == {final_key, "parsed_dict", "image_description"}

AllMetaKeys(records) == UNION {DictKeys(records[i].parsed_dict) : i \in 1..Len(records)}

\* the schema check guarded by "existing_gdf.empty" instead of "not existing_gdf.empty"
SchemaMismatchEmptyOnly(existing_gdf, existing_columns, all_meta_keys) ==
    /\ IsFrame(existing_gdf) /\ ~HasData(existing_gdf)
    /\ \E k \in all_meta_keys :
          /\ k \notin Exempt
          /\ Lower(k) \notin {Lower(c) : c \in Range(existing_columns)}

\* the ValueError for a metadata key that matches no column of a store with rows
SchemaMismatch(existing_gdf, existing_columns, all_meta_keys) ==
    /\ HasData(existing_gdf)
    /\ \E k \in all_meta_keys :
          /\ k \notin Exempt
          /\ Lower(k) \notin {Lower(c) : c \in Range(existing_columns)}

BaseColumns == <<"filename", "latitude", "image_description", final_key>>

\* gpd.GeoDataFrame(records), less its 'parsed_dict' column
NewFrame(records) ==
    Frame(BaseColumns,
          [i \in 1..Len(records) |->
              [c \in Range(BaseColumns) |->
                  CASE c = "filename" -> records[i].filename
                    [] c = "latitude" -> records[i].latitude
                    [] c = "image_description" -> records[i].image_description
                    [] OTHER -> records[i].group]])

RECURSIVE AddColumns(_, _, _)
AddColumns(gdf, cols, j) ==
    IF j > Len(cols) THEN gdf ELSE AddColumns(AddColumn(gdf, cols[j]), cols, j + 1)

\* new_gdf.loc[i, k] = v for the items of one parsed_dict whose key is a column
RECURSIVE PopulateRowNew(_, _, _, _)
PopulateRowNew(new_gdf, i, desc_dict, n) ==
    IF n > Len(desc_dict) THEN new_gdf
    ELSE LET k == desc_dict[n][1]
             v == desc_dict[n][2]
         IN IF k \in Range(new_gdf.columns)
            THEN PopulateRowNew(SetCell(new_gdf, i, k, v), i, desc_dict, n + 1)
            ELSE PopulateRowNew(new_gdf, i, desc_dict, n + 1)

RECURSIVE PopulateNew(_, _, _)
PopulateNew(new_gdf, records, i) ==
    IF i > Len(records) THEN new_gdf
    ELSE PopulateNew(PopulateRowNew(new_gdf, i, records[i].parsed_dict, 1), records, i + 1)

\* no existing data: a column for every metadata key, then the values
CreateColumns(new_gdf, records) ==
    LET wanted == {k \in AllMetaKeys(records) : k \notin Exempt}
    IN PopulateNew(AddColumns(new_gdf, Arrange(wanted, TRUE), 1), records, 1)

\* {c.lower(): c for c in existing_columns}: the last column of a fold wins
ExistingLowerMap(existing_columns) ==
    [l \in {Lower(c) : c \in Range(existing_columns)} |->
        LET last == CHOOSE j \in 1..Len(existing_columns) :
                       /\ Lower(existing_columns[j]) = l
                       /\ \A m \in (j + 1)..Len(existing_columns) : Lower(existing_columns[m]) # l
        IN existing_columns[last]]

RECURSIVE PopulateRowKnown(_, _, _, _, _)
PopulateRowKnown(new_gdf, i, desc_dict, n, existing_lower_map) ==
    IF n > Len(desc_dict) THEN new_gdf
    ELSE LET kl == Lower(desc_dict[n][1])
             v == desc_dict[n][2]
         IN IF kl \in DOMAIN existing_lower_map
            THEN PopulateRowKnown(SetCell(new_gdf, i, existing_lower_map[kl], v),
                                  i, desc_dict, n + 1, existing_lower_map)
            ELSE PopulateRowKnown(new_gdf, i, desc_dict, n + 1, existing_lower_map)

RECURSIVE PopulateKnown(_, _, _, _)
PopulateKnown(new_gdf, records, i, existing_lower_map) ==
    IF i > Len(records) THEN new_gdf
    ELSE PopulateKnown(
             PopulateRowKnown(new_gdf, i, records[i].parsed_dict, 1, existing_lower_map),
             records, i + 1, existing_lower_map)

\* existing data: only the columns the store knows are filled
UpdateKnownColumns(new_gdf, records, existing_columns) ==
    PopulateKnown(new_gdf, records, 1, ExistingLowerMap(existing_columns))

\* one incoming row: overwrite the rows of the same filename, or append
UpsertRow(existing_gdf, new_row) ==
    IF \E r \in 1..Len(existing_gdf.rows) :
          existing_gdf.rows[r]["filename"] = new_row["filename"]
    THEN Frame(existing_gdf.columns,
               [r \in 1..Len(existing_gdf.rows) |->
                   IF existing_gdf.rows[r]["filename"] = new_row["filename"]
                   THEN [c \in Range(existing_gdf.columns) |->
                            IF c # "filename" THEN new_row[c] ELSE existing_gdf.rows[r][c]]
                   ELSE existing_gdf.rows[r]])
    ELSE Frame(existing_gdf.columns, Append(existing_gdf.rows, new_row))

RECURSIVE UpsertAll(_, _, _)
UpsertAll(existing_gdf, new_gdf, i) ==
    IF i > Len(new_gdf.rows) THEN existing_gdf
    ELSE UpsertAll(UpsertRow(existing_gdf, new_gdf.rows[i]), new_gdf, i + 1)

\* existing_gdf[existing_gdf['filename'].isin(new_filenames)]
Prune(existing_gdf, new_gdf) ==
    LET new_filenames == {new_gdf.rows[i]["filename"] : i \in 1..Len(new_gdf.rows)}
    IN Frame(existing_gdf.columns,
             SelectSeq(existing_gdf.rows, LAMBDA row : row["filename"] \in new_filenames))

\* merge: reindex both frames over the union of the columns, upsert, prune
Merge(existing_gdf, new_gdf, variant_last) ==
    LET all_cols == Arrange(Range(existing_gdf.columns) \cup Range(new_gdf.columns),
                            variant_last)
        old == Reindex(existing_gdf, all_cols)
        new == Reindex(new_gdf, all_cols)
    IN Prune(UpsertAll(old, new, 1), new)

\* the body of the loop over grouped_records for one group: the raise of the
\* schema check, or the frame handed to to_file
ProcessGroup(store, records, variant_last) ==
    LET unified == Unify(ReadFile(store))
        existing_gdf == unified.existing_gdf
        existing_columns == unified.existing_columns
        new_gdf == NewFrame(records)
    IN IF SchemaMismatch(existing_gdf, existing_columns, AllMetaKeys(records))
       THEN [raised |-> TRUE, final_gdf |-> None]
       ELSE IF ~HasData(existing_gdf)
            THEN [raised |-> FALSE, final_gdf |-> CreateColumns(new_gdf, records)]
            ELSE [raised |-> FALSE,
                  final_gdf |-> Merge(existing_gdf,
                                      UpdateKnownColumns(new_gdf, records, existing_columns),
                                      variant_last)]

\* a fixed row order for the rows found on disk
RowOrder(names) ==
    SelectSeq(<<"p1.jpg", "p2.jpg", "old.jpg">>, LAMBDA n : n \in names)

\* ------------------------------------------------------- stores on disk
\* to_file: the frame becomes the content of the store
Written(final_gdf) == Frame(final_gdf.columns, final_gdf.rows)

\* Stores found before the first run were made by earlier runs or by hand in
\* a GIS: the built-in columns, the folder column under one or both of its
\* spellings, and a metadata column "A".
InitialColumns == {<<"filename", "latitude", "image_description">> \o fs \o <<"A">> :
                      fs \in {<<"f">>, <<"F">>, <<"f", "F">>, <<"F", "f">>}}

InitialRow(columns, name, group_value) ==
    [c \in Range(columns) |->
        CASE c = "filename" -> name
          [] c = "latitude" -> "0.0"
          [] c = "image_description" -> Missing
          [] c = "f" -> IF name = "old.jpg" THEN group_value ELSE Missing
          [] c = "F" -> IF name = "old.jpg" THEN "w" ELSE group_value
          [] OTHER -> "0"]

InitialFrames(group_value) ==
    {Frame(columns,
           [i \in 1..Len(names) |-> InitialRow(columns, names[i], group_value)]) :
        columns \in InitialColumns,
        names \in {RowOrder(ns) : ns \in {n \in SUBSET RowNames : Cardinality(n) <= MaxRows}}}

InitialStores ==
    {[g \in GroupValues |-> IF g = "x" THEN sx ELSE sy] :
        sx \in {Absent, Unreadable} \cup InitialFrames("x"),
        sy \in {Absent,
                Frame(<<"filename", "latitude", "image_description", "f", "A">>,
                      <<InitialRow(<<"filename", "latitude", "image_description", "f", "A">>,
                                   "old.jpg", "y")>>)}}

\* ------------------------------------------------------------ the program
Init ==
    /\ stores \in InitialStores
    /\ jpg_files \in Folders
    /\ folder_valid_values \in {NoList, ValidValues({"x"}), ValidValues({"x", "y"})}
    /\ pc = "idle"
    /\ pending = << >>
    /\ error = "none"
    /\ pre = stores
    /\ prev = [returned |-> FALSE, stores |-> stores]
    /\ runs = 0
    /\ written = {}

parsed == ParsePhotos(jpg_files, folder_valid_values, 1, << >>)

\* lines 74-76: no JPG file in the folder
ReturnNoJpg ==
    /\ pc = "idle"
    /\ jpg_files = << >>
    /\ pc' = "returned"
    /\ pre' = stores
    /\ UNCHANGED <<stores, jpg_files, folder_valid_values, pending, error, prev, runs, written>>

\* lines 109-113: a group value outside folder_valid_values
RaiseInvalidFolderValue ==
    /\ pc = "idle"
    /\ jpg_files # << >>
    /\ parsed.raised
    /\ pc' = "raised"
    /\ error' = "allow"
    /\ pre' = stores
    /\ UNCHANGED <<stores, jpg_files, folder_valid_values, pending, prev, runs, written>>

\* lines 133-135: no photo gave a record
ReturnNoRecords ==
    /\ pc = "idle"
    /\ jpg_files # << >>
    /\ ~parsed.raised
    /\ parsed.all_records = << >>
    /\ pc' = "returned"
    /\ pre' = stores
    /\ UNCHANGED <<stores, jpg_files, folder_valid_values, pending, error, prev, runs, written>>

\* lines 137-140: the records are grouped
Group ==
    /\ pc = "idle"
    /\ jpg_files # << >>
    /\ ~parsed.raised
    /\ parsed.all_records # << >>
    /\ pc' = "grouped"
    /\ pending' = grouped_records(parsed.all_records)
    /\ pre' = stores
    /\ UNCHANGED <<stores, jpg_files, folder_valid_values, error, prev, runs, written>>

\* lines 143-264 for the next group, ending in to_file
WriteGroup ==
    /\ pc = "grouped"
    /\ pending # << >>
    /\ \E variant_last \in BOOLEAN :
          LET group_value == pending[1][1]
              out == ProcessGroup(stores[group_value], pending[1][2], variant_last)
          IN /\ ~out.raised
             /\ stores' = [stores EXCEPT ![group_value] = Written(out.final_gdf)]
    /\ pending' = Tail(pending)
    /\ written' = written \cup {pending[1][1]}
    /\ UNCHANGED <<jpg_files, folder_valid_values, pc, error, pre, prev, runs>>

\* lines 190-201 for the next group: the schema check raises
RaiseSchemaMismatch ==
    /\ pc = "grouped"
    /\ pending # << >>
    /\ ProcessGroup(stores[pending[1][1]], pending[1][2], TRUE).raised
    /\ pc' = "raised"
    /\ error' = "schema"
    /\ UNCHANGED <<stores, jpg_files, folder_valid_values, pending, pre, prev, runs, written>>

\* the loop over grouped_records is over
Return ==
    /\ pc = "grouped"
    /\ pending = << >>
    /\ pc' = "returned"
    /\ UNCHANGED <<stores, jpg_files, folder_valid_values, pending, error, pre, prev, runs, written>>

\* the program is run again on the same folder with the same configuration
RunAgain ==
    /\ pc \in {"returned", "raised"}
    /\ runs + 1 < MaxRuns
    /\ pc' = "idle"
    /\ runs' = runs + 1
    /\ prev' = [returned |-> pc = "returned", stores |-> stores]
    /\ pending' = << >>
    /\ error' = "none"
    /\ pre' = stores
    /\ written' = {}
    /\ UNCHANGED <<stores, jpg_files, folder_valid_values>>

Next ==
    \/ ReturnNoJpg
    \/ RaiseInvalidFolderValue
    \/ ReturnNoRecords
    \/ Group
    \/ WriteGroup
    \/ RaiseSchemaMismatch
    \/ Return
    \/ RunAgain

Spec == Init /\ [][Next]_vars

\* ----------------------------------------------------------- properties
Finished == pc \in {"returned", "raised"}

\* the photos of the folder that give a record of group g, in glob order
BatchOf(g) == SelectSeq(jpg_files, LAMBDA photo : HasKey(photo) /\ GroupValueOf(photo) = g)

BatchNames(g) == {BatchOf(g)[i].name : i \in 1..Len(BatchOf(g))}

Filenames(store) == {store.rows[i]["filename"] : i \in 1..Len(store.rows)}

UniqueFilenames(store) ==
    \A i, j \in 1..Len(store.rows) :
        store.rows[i]["filename"] = store.rows[j]["filename"] => i = j

\* the keys of a photo's description as written there
RawKeys(photo) == DictKeys(parse_image_description(photo.image_description))

\* the value the description gives for the keys that fold to lk: its last one
LastValue(photo, lk) ==
    LET items == parse_image_description(photo.image_description)
        last == CHOOSE n \in 1..Len(items) :
                   /\ Lower(items[n][1]) = lk
                   /\ \A m \in (n + 1)..Len(items) : Lower(items[m][1]) # lk
    IN items[last][2]

BuiltIn == {"filename", "latitude", "image_description", final_key, "parsed_dict"}

\* same rows: same columns, same row count, and the same rows as a set
SameRows(s, t) ==
    /\ s.kind = t.kind
    /\ s.kind = "frame" =>
          /\ Range(s.columns) = Range(t.columns)
          /\ Len(s.rows) = Len(t.rows)
          /\ Range(s.rows) = Range(t.rows)

\* C1 (prune): once a run has written the store of a group whose store held
\* rows before the run, the filenames of the store are exactly the file names
\* of the group's photos, and the rows kept from before are the earlier rows
\* less one per omitted filename.
C1_Prune ==
    \A g \in written :
        HasData(pre[g]) =>
            /\ Filenames(stores[g]) = BatchNames(g)
            /\ Cardinality({r \in 1..Len(stores[g].rows) :
                               stores[g].rows[r]["filename"] \in Filenames(pre[g])})
                 = Len(pre[g].rows) - Cardinality(Filenames(pre[g]) \ BatchNames(g))

\* what the record of a photo holds for a column of the store
IncomingValue(photo, c) ==
    CASE c = "latitude" -> LatitudeOf(photo.name)
      [] c = "image_description" -> photo.image_description
      [] Lower(c) = final_key -> GroupValueOf(photo)
      [] OTHER -> IF \E k \in RawKeys(photo) : Lower(k) = Lower(c)
                  THEN LastValue(photo, Lower(c))
                  ELSE Missing

\* C2 (upsert): once a run has written the store of a group, no filename has
\* two rows; and when the store held rows with unique filenames before the run,
\* every photo of the group has exactly one row, whose other columns hold the
\* photo's values.
C2_Upsert ==
    \A g \in written :
        (HasData(pre[g]) => UniqueFilenames(pre[g])) =>
            /\ UniqueFilenames(stores[g])
            /\ HasData(pre[g]) =>
                  \A i \in 1..Len(BatchOf(g)) :
                      LET photo == BatchOf(g)[i]
                          hits == {r \in 1..Len(stores[g].rows) :
                                      stores[g].rows[r]["filename"] = photo.name}
                      IN /\ Cardinality(hits) = 1
                         /\ \A r \in hits : \A c \in Range(stores[g].columns) \ {"filename"} :
                               stores[g].rows[r][c] = IncomingValue(photo, c)

\* a photo of group g carries a metadata key that folds to no column of the
\* store g held, with rows, when the run started
UnknownKeyIn(g) ==
    /\ HasData(pre[g])
    /\ \E i \in 1..Len(BatchOf(g)) : \E k \in RawKeys(BatchOf(g)[i]) :
          /\ Lower(k) \notin Exempt
          /\ \A c \in Range(pre[g].columns) : Lower(c) # Lower(k)

\* C3 (unknown-key rejection): when a group's photos carry a key unknown to
\* its store with rows, the run never writes that store and can only end in a raise.
C3_UnknownKeyRejected ==
    \A g \in GroupValues :
        UnknownKeyIn(g) =>
            /\ stores[g] = pre[g]
            /\ g \notin written
            /\ Finished => pc = "raised"

\* C3 witness: the schema check raised for x after the store of y was written
C3_Witness ==
    /\ pc = "raised" /\ error = "schema"
    /\ UnknownKeyIn("x")
    /\ "y" \in written
    /\ stores["x"] = pre["x"]

FoldsToKey(columns) == {j \in 1..Len(columns) : Lower(columns[j]) = final_key}

\* C4 (case-insensitive unification): once a run has written the store of a
\* group whose store held rows and a column that folds to the group key, the
\* store has exactly one such column, spelled as final_key; and the unified
\* frame holds, row by row, the canonical value or else the variant's value.
C4_OneCanonicalColumn ==
    \A g \in written :
        (HasData(pre[g]) /\ FoldsToKey(pre[g].columns) # {}) =>
            /\ Cardinality(FoldsToKey(stores[g].columns)) = 1
            /\ final_key \in Range(stores[g].columns)
            /\ LET unified == Unify(ReadFile(pre[g])).existing_gdf
                   variants == {c \in Range(pre[g].columns) :
                                   Lower(c) = final_key /\ c # final_key}
                   canonical(r) == IF final_key \in Range(pre[g].columns)
                                   THEN pre[g].rows[r][final_key]
                                   ELSE Missing
               IN \A r \in 1..Len(pre[g].rows) :
                     unified.rows[r][final_key] =
                        IF canonical(r) # Missing \/ variants = {}
                        THEN canonical(r)
                        ELSE pre[g].rows[r][CHOOSE c \in variants : TRUE]

\* C5 (idempotence): when a run returns after a run that returned, over the
\* same folder and configuration, every store has the rows the earlier run left.
C5_Idempotent ==
    (pc = "returned" /\ runs >= 1 /\ prev.returned) =>
        \A g \in GroupValues : SameRows(stores[g], prev.stores[g])

\* a photo with GPS data and the group key resolves to a value outside the list
InvalidValuePresent ==
    /\ folder_valid_values.given
    /\ \E i \in 1..Len(jpg_files) :
          /\ HasKey(jpg_files[i])
          /\ GroupValueOf(jpg_files[i]) \notin folder_valid_values.values

RECURSIVE RunInOrder(_, _, _, _)
RunInOrder(disk, grouped, order, n) ==
    IF n > Len(order) THEN disk
    ELSE LET g == order[n]
             out == ProcessGroup(disk[g], DictGet(grouped, g), TRUE)
         IN IF out.raised THEN disk
            ELSE RunInOrder([disk EXCEPT ![g] = Written(out.final_gdf)], grouped, order, n + 1)

GroupOrders(grouped) ==
    {o \in [1..Len(grouped) -> DictKeys(grouped)] :
        \A i, j \in 1..Len(grouped) : o[i] = o[j] => i = j}

\* C7 (group-order independence): when a run that grouped its records has
\* ended, every store has the rows a run over the groups in any order leaves.
C7_GroupOrderIndependent ==
    (Finished /\ error # "allow" /\ ~parsed.raised) =>
        LET grouped == grouped_records(parsed.all_records)
        IN \A o \in GroupOrders(grouped) : \A g \in GroupValues :
              SameRows(stores[g], RunInOrder(pre, grouped, o, 1)[g])

\* C8 (absent group untouched): the store of a group value no photo of the
\* folder resolves to is never written and stays as it was.
C8_AbsentGroupUntouched ==
    \A g \in GroupValues :
        BatchOf(g) = << >> => (stores[g] = pre[g] /\ g \notin written)

\* C8 witness: the run wrote the store of x and returned, y has a store with
\* rows and no photo
C8_Witness ==
    /\ pc = "returned"
    /\ "x" \in written /\ stores["x"] # pre["x"]
    /\ BatchOf("y") = << >>
    /\ HasData(stores["y"])

MetaKeysOf(photo) == {k \in RawKeys(photo) : Lower(k) \notin BuiltIn}

FirstObserved(g, lk) ==
    LET spelled(photo) ==
            LET items == parse_image_description(photo.image_description)
                first == CHOOSE n \in 1..Len(items) :
                            /\ Lower(items[n][1]) = lk
                            /\ \A m \in 1..(n - 1) : Lower(items[m][1]) # lk
            IN items[first][1]
        i == CHOOSE n \in 1..Len(BatchOf(g)) :
                /\ \E k \in RawKeys(BatchOf(g)[n]) : Lower(k) = lk
                /\ \A m \in 1..(n - 1) : \A k \in RawKeys(BatchOf(g)[m]) : Lower(k) # lk
    IN spelled(BatchOf(g)[i])

C10_FilenameIsBaseName ==
    \A g \in written : \A r \in 1..Len(stores[g].rows) : \A i \in 1..Len(jpg_files) :
        stores[g].rows[r]["latitude"] = LatitudeOf(jpg_files[i].name)
            => stores[g].rows[r]["filename"] = jpg_files[i].name

====
